---- MODULE Spec2Model ----
(***************************************************************************)
(* Session state machine of the viva examiner: SessionManager (the sqlite  *)
(* table `sessions`), InterviewController and the HTTP handlers of main.py *)
(* that drive them.                                                        *)
(*                                                                         *)
(* Two specifications of the sessions are given.  Spec runs every handler  *)
(* to completion before the next one starts: this is one server process,   *)
(* whose `async def` handlers never await between their reads and writes   *)
(* of the table (`python main.py`).  SpecConc lets several callers of the  *)
(* same InterviewController methods interleave at their database accesses: *)
(* get_session and save_session each open and close their own database     *)
(* session, the evaluator's network call sits between them, and nothing    *)
(* locks the row.  This is the deployment verify_deployment_ready.py       *)
(* prepares (gunicorn workers sharing one sessions.db).  save_session is   *)
(* taken as one step: its query, its four assignments and its commit.      *)
(*                                                                         *)
(* SpecEval is one AnswerEvaluator.evaluate call, from the model's reply   *)
(* to the EvaluationResult, for every score range a deployment may         *)
(* configure; the session specifications take the outcome of evaluate as   *)
(* an input.                                                               *)
(***************************************************************************)
EXTENDS Integers, Sequences, FiniteSets, TLC

\* ---------------------------------------------------------------- bounds
MaxSessions == 1
MaxQuestions == 2
MaxTime == 1
NumCallers == 2
\* the largest score a deployment may configure as min_score or max_score
MaxConfiguredScore == 11
\* the most entries a reply of the generation model lists (one scenario of
\* six entries apart), and the largest NUM_QUESTIONS besides the default
MaxCandidates == 3
MaxCount == 2
\* the most sections of a parsed document, and the most pieces the text
\* splitter cuts one content into
MaxSections == 2
MaxPieces == 2
\* the most calls made on one embedding provider instance
MaxCalls == 5

\* ------------------------------------------------------- program constants
min_score == 1
max_score == 10
\* config.py line 45
num_questions == 5
\* config.py line 58
chunk_size == 512

SessionIds == 1..MaxSessions
\* ids a request may carry: 0 is an id no session ever has
RequestIds == 0..MaxSessions
Times == 1..MaxTime
\* datetime.utcnow() read when the last reading was t: time does not run back
Later(t) == t..MaxTime
Callers == 1..NumCallers
Users == {"u1"}
Papers == {"p1"}
Answers == {"a"}

\* completed_at: Optional[datetime] = None
NoTime == 0
\* Optional[Question] None
NoQuestion == [none |-> TRUE]
\* Optional[Session] None
NoSession == [none |-> TRUE]

IN_PROGRESS == "in_progress"
COMPLETED == "completed"
PAUSED == "paused"
SessionStatus == {IN_PROGRESS, COMPLETED, PAUSED}

CORRECT == "correct"
PARTIALLY_CORRECT == "partially_correct"
INCORRECT == "incorrect"

\* A generated question; the id is the uuid4 drawn at construction.
Question(k) == [id |-> k, text |-> <<"Question", k>>]

\* The question lists generate() may hand to start_interview.
QuestionLists == { [k \in 1..n |-> Question(k)] : n \in 0..MaxQuestions }

\* What AnswerEvaluator.evaluate may return (ok) or raise (~ok).
EvaluationResults ==
    { [ok |-> TRUE, score |-> min_score, correctness |-> INCORRECT, feedback |-> "bad"],
      [ok |-> TRUE, score |-> max_score, correctness |-> CORRECT, feedback |-> "good"] }
EvaluatorError == [ok |-> FALSE, score |-> 0, correctness |-> "", feedback |-> ""]
EvaluationOutcomes == EvaluationResults \cup {EvaluatorError}
\* the evaluator was not invoked
NoEvaluation == [none |-> TRUE]
\* a call that returned None, or a bool that `ok` already holds
NoResult == [none |-> TRUE]

\* ---------------------------------------------------------- models.py
AnswerRecord(question_id, answer, score, feedback, correctness, timestamp) ==
    [question_id |-> question_id, answer |-> answer, score |-> score,
     feedback |-> feedback, correctness |-> correctness, timestamp |-> timestamp]

Session(id, user_id, paper_id, questions, answers, idx, status, started_at, completed_at) ==
    [id |-> id, user_id |-> user_id, paper_id |-> paper_id,
     questions |-> questions, answers |-> answers,
     current_question_index |-> idx, status |-> status,
     started_at |-> started_at, completed_at |-> completed_at]

current_question(s) ==
    IF 0 <= s.current_question_index /\ s.current_question_index < Len(s.questions)
    THEN s.questions[s.current_question_index + 1]
    ELSE NoQuestion

is_complete(s) == Len(s.answers) >= Len(s.questions)

\* sum(answer.score for answer in answers)
RECURSIVE SumScores(_)
SumScores(answers) ==
    IF answers = <<>> THEN 0 ELSE Head(answers).score + SumScores(Tail(answers))

total_score(s) == SumScores(s.answers)

RECURSIVE GCD(_, _)
GCD(a, b) == IF b = 0 THEN a ELSE GCD(b, a % b)

\* a / b of two ints, b > 0: the quotient as a fraction in lowest terms (the
\* rounding of the float that carries it is not modelled)
TrueDiv(a, b) == [num |-> a \div GCD(a, b), den |-> b \div GCD(a, b)]

\* average_score that divides by the number of questions
average_score_OverQuestions(s) ==
    IF s.answers = <<>> THEN TrueDiv(0, 1)
    ELSE TrueDiv(total_score(s), Len(s.questions))

average_score(s) ==
    IF s.answers = <<>> THEN TrueDiv(0, 1)
    ELSE TrueDiv(total_score(s), Len(s.answers))

\* ---------------------------------------------------- session_manager.py
\* datetime <-> ISO-8601 text, as model_dump(mode='json') and pydantic parse
IsoFormat(t) == <<"iso", t>>
ParseIso(x) == x[2]

_serialize_questions(questions) ==
    [k \in 1..Len(questions) |-> [id |-> questions[k].id, text |-> questions[k].text]]

\* _deserialize_questions that rebuilds each Question from its text alone, the
\* id left to the default factory (a fresh uuid4)
_deserialize_questions_FreshIds(questions_json) ==
    [k \in 1..Len(questions_json) |->
        [id |-> questions_json[k].id + MaxQuestions + 1,
         text |-> questions_json[k].text]]

_deserialize_questions(questions_json) ==
    [k \in 1..Len(questions_json) |->
        [id |-> questions_json[k].id, text |-> questions_json[k].text]]

_serialize_answers(answers) ==
    [k \in 1..Len(answers) |->
        [question_id |-> answers[k].question_id, answer |-> answers[k].answer,
         score |-> answers[k].score, feedback |-> answers[k].feedback,
         correctness |-> answers[k].correctness,
         timestamp |-> IsoFormat(answers[k].timestamp)]]

\* (the `if not answers_json` branch is for an empty string, which the
\* column never holds: json.dumps([]) is "[]")
_deserialize_answers(answers_json) ==
    [k \in 1..Len(answers_json) |->
        AnswerRecord(answers_json[k].question_id, answers_json[k].answer,
                     answers_json[k].score, answers_json[k].feedback,
                     answers_json[k].correctness,
                     ParseIso(answers_json[k].timestamp))]

\* A row of table `sessions`.
SessionDB(s) ==
    [id |-> s.id, user_id |-> s.user_id, paper_id |-> s.paper_id,
     questions_json |-> _serialize_questions(s.questions),
     answers_json |-> _serialize_answers(s.answers),
     current_question_index |-> s.current_question_index,
     status |-> s.status, started_at |-> s.started_at,
     completed_at |-> NoTime]

VARIABLES
    db,      \* table `sessions`: session id -> row
    proc,    \* per caller: the InterviewController call in flight (SpecConc)
    ret,     \* the response of the call that finished last
    clock,   \* the latest reading of datetime.utcnow()
    evaluator, \* the AnswerEvaluator: its score range and the evaluate call
    generator, \* the QuestionGenerator: its count and the generate call
    analyzer  \* the ContentAnalyzer: its chunk_document call and its embeddings

vars == <<db, proc, ret, clock, evaluator, generator, analyzer>>

\* uuid4(): an id no row has yet
FreshId(d) == Cardinality(DOMAIN d) + 1

create_session(d, user_id, paper_id, questions, now) ==
    LET session == Session(FreshId(d), user_id, paper_id, questions, <<>>, 0,
                           IN_PROGRESS, now, NoTime)
    IN  [db |-> d @@ (session.id :> SessionDB(session)), session |-> session]

get_session(d, session_id) ==
    IF session_id \notin DOMAIN d THEN NoSession
    ELSE LET r == d[session_id]
         IN  Session(r.id, r.user_id, r.paper_id,
                     _deserialize_questions(r.questions_json),
                     _deserialize_answers(r.answers_json),
                     r.current_question_index, r.status, r.started_at,
                     r.completed_at)

\* save_session that forgets the completed_at column
save_session_NoCompletedAt(d, s) ==
    IF s.id \in DOMAIN d
    THEN [d EXCEPT ![s.id] =
            [@ EXCEPT !.answers_json = _serialize_answers(s.answers),
                      !.current_question_index = s.current_question_index,
                      !.status = s.status]]
    ELSE d

save_session(d, s) ==
    IF s.id \in DOMAIN d
    THEN [d EXCEPT ![s.id] =
            [@ EXCEPT !.answers_json = _serialize_answers(s.answers),
                      !.current_question_index = s.current_question_index,
                      !.status = s.status,
                      !.completed_at = s.completed_at]]
    ELSE d

\* ------------------------------------------------ interview_controller.py
\* What a controller call hands back: the table after it, the exception it
\* raised ("" when none) with its message, whether it returned a truthy value,
\* the id of the question the evaluator was invoked on (0 when it was not),
\* the value it returned (NoResult for None or a bare bool), and the Session
\* object it handed to the table (NoSession when it wrote nothing).
Outcome(d, exc, msg, ok, evaluated, result, session) ==
    [db |-> d, exc |-> exc, msg |-> msg, ok |-> ok, evaluated |-> evaluated,
     result |-> result, session |-> session]

\* RecordAnswer that forgets `session.current_question_index += 1`
RecordAnswer_NoIncrement(session, answer, evaluation, timestamp, completed_now) ==
    LET answer_record == AnswerRecord(current_question(session).id, answer,
                                      evaluation.score, evaluation.feedback,
                                      evaluation.correctness, timestamp)
        appended == [session EXCEPT !.answers = Append(@, answer_record)]
    IN  IF is_complete(appended)
        THEN [appended EXCEPT !.status = COMPLETED, !.completed_at = completed_now]
        ELSE appended

\* RecordAnswer that tests is_complete before it appends the record
RecordAnswer_ChecksBeforeAppend(session, answer, evaluation, timestamp, completed_now) ==
    LET answer_record == AnswerRecord(current_question(session).id, answer,
                                      evaluation.score, evaluation.feedback,
                                      evaluation.correctness, timestamp)
        appended == [session EXCEPT
                        !.answers = Append(@, answer_record),
                        !.current_question_index = @ + 1]
    IN  IF is_complete(session)
        THEN [appended EXCEPT !.status = COMPLETED, !.completed_at = completed_now]
        ELSE appended

\* submit_answer, lines 103-122: record the answer on the caller's copy
RecordAnswer(session, answer, evaluation, timestamp, completed_now) ==
    LET answer_record == AnswerRecord(current_question(session).id, answer,
                                      evaluation.score, evaluation.feedback,
                                      evaluation.correctness, timestamp)
        appended == [session EXCEPT
                        !.answers = Append(@, answer_record),
                        !.current_question_index = @ + 1]
    IN  IF is_complete(appended)
        THEN [appended EXCEPT !.status = COMPLETED, !.completed_at = completed_now]
        ELSE appended

\* SubmitPrecheck without the `status == COMPLETED` check
SubmitPrecheck_NoCompletedCheck(session) ==
    IF session = NoSession THEN "Session not found"
    ELSE IF current_question(session) = NoQuestion THEN "No current question available"
    ELSE ""

\* submit_answer, lines 84-96: the checks before the evaluator is invoked
SubmitPrecheck(session) ==
    IF session = NoSession THEN "Session not found"
    ELSE IF session.status = COMPLETED THEN "Session is already completed"
    ELSE IF current_question(session) = NoQuestion THEN "No current question available"
    ELSE ""

\* submit_answer that moves to the next question before it asks the evaluator
submit_answer_AdvancesFirst(d, session_id, answer, evaluation, timestamp, completed_now) ==
    LET session == get_session(d, session_id)
        failure == SubmitPrecheck(session)
        recorded == RecordAnswer(session, answer, evaluation, timestamp,
                                 completed_now)
    IN  IF failure # ""
        THEN Outcome(d, "ValueError", failure, FALSE, 0, NoResult, NoSession)
        ELSE IF ~evaluation.ok
        THEN Outcome(save_session(d, [session EXCEPT
                                          !.current_question_index = @ + 1]),
                     "EvaluatorError", "evaluate raised", FALSE,
                     current_question(session).id, NoResult, NoSession)
        ELSE Outcome(save_session(d, recorded), "", "", TRUE,
                     current_question(session).id, evaluation, recorded)

submit_answer(d, session_id, answer, evaluation, timestamp, completed_now) ==
    LET session == get_session(d, session_id)
        failure == SubmitPrecheck(session)
        recorded == RecordAnswer(session, answer, evaluation, timestamp,
                                 completed_now)
    IN  IF failure # ""
        THEN Outcome(d, "ValueError", failure, FALSE, 0, NoResult, NoSession)
        ELSE IF ~evaluation.ok
        THEN Outcome(d, "EvaluatorError", "evaluate raised", FALSE,
                     current_question(session).id, NoResult, NoSession)
        ELSE Outcome(save_session(d, recorded), "", "", TRUE,
                     current_question(session).id, evaluation, recorded)

\* The inputs a submit_answer call consumes: the evaluator answers only a call
\* that passed the checks, and utcnow() is read only once it has returned.
EvaluatorReplies(d, session_id) ==
    IF SubmitPrecheck(get_session(d, session_id)) # ""
    THEN {NoEvaluation} ELSE EvaluationOutcomes

Readings(evaluation, t) ==
    IF evaluation \in EvaluationResults THEN Later(t) ELSE {t}

\* PauseAllowed that refuses only a completed session
PauseAllowed_NotCompleted(session) ==
    session # NoSession /\ session.status # COMPLETED

PauseAllowed(session) == session # NoSession /\ session.status = IN_PROGRESS

pause_session(d, session_id) ==
    LET session == get_session(d, session_id)
        paused == [session EXCEPT !.status = PAUSED]
    IN  IF ~PauseAllowed(session)
        THEN Outcome(d, "", "", FALSE, 0, NoResult, NoSession)
        ELSE Outcome(save_session(d, paused), "", "", TRUE, 0, NoResult, paused)

\* ResumeAllowed that refuses only a completed session
ResumeAllowed_NotCompleted(session) ==
    session # NoSession /\ session.status # COMPLETED

ResumeAllowed(session) == session # NoSession /\ session.status = PAUSED

\* resume_session that starts the interview over at the first question
resume_session_Restarts(d, session_id) ==
    LET session == get_session(d, session_id)
        resumed == [session EXCEPT !.status = IN_PROGRESS,
                                   !.current_question_index = 0]
    IN  IF ~ResumeAllowed(session)
        THEN Outcome(d, "", "", FALSE, 0, NoResult, NoSession)
        ELSE Outcome(save_session(d, resumed), "", "", TRUE, 0, NoResult, resumed)

resume_session(d, session_id) ==
    LET session == get_session(d, session_id)
        resumed == [session EXCEPT !.status = IN_PROGRESS]
    IN  IF ~ResumeAllowed(session)
        THEN Outcome(d, "", "", FALSE, 0, NoResult, NoSession)
        ELSE Outcome(save_session(d, resumed), "", "", TRUE, 0, NoResult, resumed)

\* get_session_status, lines 144-156: the dict it returns
StatusSnapshot(session) ==
    [session_id |-> session.id,
     status |-> session.status,
     current_question_index |-> session.current_question_index,
     total_questions |-> Len(session.questions),
     questions_remaining |-> Len(session.questions) - Len(session.answers),
     current_question |-> current_question(session),
     answers |-> _serialize_answers(session.answers),
     total_score |-> total_score(session),
     average_score |-> average_score(session),
     started_at |-> IsoFormat(session.started_at),
     completed_at |-> IF session.completed_at # NoTime
                      THEN IsoFormat(session.completed_at) ELSE <<>>]

\* get_session_status that brings the session back to in_progress as it reads
get_session_status_Reopening(d, session_id) ==
    LET session == get_session(d, session_id)
    IN  IF session = NoSession
        THEN Outcome(d, "", "", FALSE, 0, NoResult, NoSession)
        ELSE Outcome(save_session(d, [session EXCEPT !.status = IN_PROGRESS]),
                     "", "", TRUE, 0, StatusSnapshot(session), NoSession)

get_session_status(d, session_id) ==
    LET session == get_session(d, session_id)
    IN  IF session = NoSession
        THEN Outcome(d, "", "", FALSE, 0, NoResult, NoSession)
        ELSE Outcome(d, "", "", TRUE, 0, StatusSnapshot(session), NoSession)

\* ------------------------------------------------------------- main.py
\* The response of a finished handler or controller call, and with it the
\* table as the step that ends the call found it.
Response(op, session_id, o, http) ==
    [op |-> op, sid |-> session_id, exc |-> o.exc, msg |-> o.msg, ok |-> o.ok,
     evaluated |-> o.evaluated, result |-> o.result, session |-> o.session,
     http |-> http, found |-> db]

\* POST /interview/answer: ValueError -> 400, any other exception -> 500
SubmitHttp(o) ==
    IF o.exc = "" THEN 200 ELSE IF o.exc = "ValueError" THEN 400 ELSE 500

\* POST /interview/start, lines 287-302: create the session, then build the
\* response from session.current_question; None has no model_dump, and every
\* exception of the handler becomes a 500.
start_interview(d, user_id, paper_id, questions, now) ==
    LET created == create_session(d, user_id, paper_id, questions, now)
    IN  IF current_question(created.session) = NoQuestion
        THEN Outcome(created.db, "AttributeError",
                     "'NoneType' object has no attribute 'model_dump'", FALSE, 0,
                     NoResult, created.session)
        ELSE Outcome(created.db, "", "", TRUE, 0, NoResult, created.session)

\* ---------------------------------------------------- answer_evaluator.py
\* EvaluationResult.score: Field(ge=1, le=10)
score_ge == 1
score_le == 10
\* the score of the default evaluation, and of a reply that reports none
default_score == 5

\* min_score / max_score a deployment may set (MIN_SCORE, MAX_SCORE in .env)
ConfiguredScores == 0..MaxConfiguredScore
\* the integers a reply may report as its score
ReplyScores == (0 - 1)..(MaxConfiguredScore + 1)

\* JSON values of a reply's fields; Absent: the object has no such key
Absent == [t |-> "absent"]
Null == [t |-> "null"]
IntValue(v) == [t |-> "int", v |-> v]
\* a number with a fraction, e.g. 7.9: v is its integer part
FloatValue(v) == [t |-> "float", v |-> v]
\* a string that spells an integer, e.g. "7"
NumeralValue(v) == [t |-> "numeral", v |-> v]
\* any other string
StrValue(v) == [t |-> "str", v |-> v]
ListValue(v) == [t |-> "list", v |-> v]

ScoreValues ==
    {Absent, Null, StrValue("high"), NumeralValue(7), FloatValue(7)}
        \cup {IntValue(v) : v \in ReplyScores}
CorrectnessValues ==
    {Absent, Null, StrValue("correct"), StrValue("CORRECT"), StrValue("excellent")}
FeedbackValues == {Absent, StrValue("well argued")}
ListValues == {Absent, ListValue(<<"x">>)}

\* response.content of the model.  object: the text from the first "{" to the
\* last "}" is a JSON object with these fields, and `wrapped` tells whether
\* prose surrounds it; broken: that text is not JSON; prose: no braces and not
\* JSON; scalar: no braces, a JSON value that is no object (7, null, [1]).
ObjectReplies ==
    [kind : {"object"}, wrapped : BOOLEAN, score : ScoreValues,
     correctness : CorrectnessValues, feedback : FeedbackValues,
     factual_errors : ListValues, missing_concepts : ListValues]
ProseReply == [kind |-> "prose"]
BrokenReply == [kind |-> "broken"]
ScalarReply == [kind |-> "scalar"]
Replies == ObjectReplies \cup {ProseReply, BrokenReply, ScalarReply}
NoReply == [kind |-> "none"]

\* json.loads(reply) succeeds
IsValidJson(reply) ==
    \/ reply.kind = "scalar"
    \/ reply.kind = "object" /\ ~reply.wrapped

Raised(exc) == [ok |-> FALSE, exc |-> exc]

\* int(x)
ToInt(x) ==
    CASE x.t \in {"int", "float", "numeral"} -> [ok |-> TRUE, v |-> x.v]
      [] x.t = "str" -> Raised("ValueError")
      [] OTHER -> Raised("TypeError")

Min(a, b) == IF a <= b THEN a ELSE b
Max(a, b) == IF a >= b THEN a ELSE b

\* str.lower
Lower(v) == IF v = "CORRECT" THEN "correct" ELSE v

\* dict.get(key, default)
Get(field, default) == IF field = Absent THEN default ELSE field

\* the dict _parse_evaluation_response returns
EvalData(score, correctness, feedback, factual_errors, missing_concepts) ==
    [ok |-> TRUE, score |-> score, correctness |-> correctness,
     feedback |-> feedback, factual_errors |-> factual_errors,
     missing_concepts |-> missing_concepts]

\* lines 110-116
DefaultEvaluation ==
    EvalData(default_score, StrValue(PARTIALLY_CORRECT),
             StrValue("Unable to evaluate answer properly. Please try again."),
             ListValue(<<>>), ListValue(<<>>))

\* _parse_evaluation_response that takes the braces for a JSON object without
\* trying json.loads on them
_parse_evaluation_response_TrustsBraces(self, reply) ==
    IF reply.kind = "prose" THEN DefaultEvaluation
    ELSE IF reply.kind = "scalar" THEN Raised("AttributeError")
    ELSE IF reply.kind = "broken" THEN Raised("JSONDecodeError")
    ELSE LET score == ToInt(Get(reply.score, IntValue(default_score)))
             correctness == Get(reply.correctness, StrValue(PARTIALLY_CORRECT))
         IN  IF ~score.ok
             THEN IF score.exc = "ValueError" THEN DefaultEvaluation
                  ELSE Raised(score.exc)
             ELSE IF correctness.t # "str" THEN Raised("AttributeError")
             ELSE EvalData(Max(self.min_score, Min(self.max_score, score.v)),
                           StrValue(Lower(correctness.v)),
                           Get(reply.feedback, StrValue("No feedback provided")),
                           Get(reply.factual_errors, ListValue(<<>>)),
                           Get(reply.missing_concepts, ListValue(<<>>)))

\* lines 88-116.  json.loads raises JSONDecodeError (a ValueError) on text that
\* is not JSON, and int() raises ValueError on a string that spells no
\* integer: both are caught and give the default.  A JSON value that is no
\* object has no .get, None has no int() and no .lower(): AttributeError and
\* TypeError are not caught.
_parse_evaluation_response(self, reply) ==
    IF reply.kind \in {"prose", "broken"} THEN DefaultEvaluation
    ELSE IF reply.kind = "scalar" THEN Raised("AttributeError")
    ELSE LET score == ToInt(Get(reply.score, IntValue(default_score)))
             correctness == Get(reply.correctness, StrValue(PARTIALLY_CORRECT))
         IN  IF ~score.ok
             THEN IF score.exc = "ValueError" THEN DefaultEvaluation
                  ELSE Raised(score.exc)
             ELSE IF correctness.t # "str" THEN Raised("AttributeError")
             ELSE EvalData(Max(self.min_score, Min(self.max_score, score.v)),
                           StrValue(Lower(correctness.v)),
                           Get(reply.feedback, StrValue("No feedback provided")),
                           Get(reply.factual_errors, ListValue(<<>>)),
                           Get(reply.missing_concepts, ListValue(<<>>)))

\* models.py: EvaluationResult(score=..., correctness=..., ...), or the
\* ValidationError of a score outside ge / le
EvaluationResult(score, correctness, feedback, factual_errors, missing_concepts) ==
    IF score_ge <= score /\ score <= score_le
    THEN [ok |-> TRUE, score |-> score, correctness |-> correctness,
          feedback |-> feedback, factual_errors |-> factual_errors,
          missing_concepts |-> missing_concepts]
    ELSE Raised("ValidationError")

\* Correctness(value): the member with that value, or ValueError
IsCorrectness(v) == v \in {CORRECT, PARTIALLY_CORRECT, INCORRECT}

\* evaluate, lines 170-176
ConstructResult(eval_data) ==
    IF ~IsCorrectness(eval_data.correctness.v) THEN Raised("ValueError")
    ELSE EvaluationResult(eval_data.score, eval_data.correctness.v,
                          eval_data.feedback.v, eval_data.factual_errors.v,
                          eval_data.missing_concepts.v)

NoData == [none |-> TRUE]

\* AnswerEvaluator.__init__, and where its evaluate call stands
AnswerEvaluator(lo, hi) ==
    [min_score |-> lo, max_score |-> hi, pc |-> "idle", reply |-> NoReply,
     eval_data |-> NoData, result |-> NoData]

\* -------------------------------------------------- question_generator.py
\* Text is a sequence of words; `x in y` on strings is the occurrence of one
\* sequence in the other.
Contains(text, pattern) ==
    \E i \in 0..(Len(text) - Len(pattern)) :
        SubSeq(text, i + 1, i + Len(pattern)) = pattern

\* str.lower, word by word
LowerWord(w) ==
    CASE w = "Why" -> "why"
      [] w = "WHY" -> "why"
      [] w = "What" -> "what"
      [] w = "Title" -> "title"
      [] w = "Attention" -> "attention"
      [] w = "ATTENTION" -> "attention"
      [] OTHER -> w
LowerText(text) == [k \in 1..Len(text) |-> LowerWord(text[k])]

\* _validate_questions, lines 127-132
generic_patterns ==
    { <<"what", "is", "the", "title">>, <<"who", "are", "the", "authors">>,
      <<"when", "was">>, <<"where", "was", "published">> }

\* parsed_doc.text of the paper the interview is about
paper_text == <<"Self", "Attention", "replaces", "recurrence">>

\* models.py: QuestionType, and Question.difficulty Field(ge=1, le=5, default=3)
QuestionTypes == {"why", "how", "explain", "compare", "apply"}
difficulty_ge == 1
difficulty_le == 5

\* NUM_QUESTIONS a deployment may set
QuestionCounts == (1..MaxCount) \cup {num_questions}

\* The entries a reply may list.  Each kind is one JSON value:
\* good: a well-formed object about the paper; shouting: the same with type
\* "WHY" and concept "ATTENTION"; untyped: no type key; generic: a denylisted
\* text; off_paper: no expected concept occurs in the paper; unknown_type:
\* type "what"; null_type: type null; no_text: no text key; too_hard:
\* difficulty 6; not_object: a JSON string.
ObjectEntry(text, type, expected_concepts, difficulty) ==
    [t |-> "object", text |-> text, type |-> type,
     expected_concepts |-> expected_concepts, difficulty |-> difficulty]
WhyText == StrValue(<<"Why", "attention", "?">>)
TitleText == StrValue(<<"What", "is", "the", "Title", "?">>)
OnPaper == ListValue(<<<<"recurrence", "relation">>, <<"attention">>>>)
Entry(kind) ==
    CASE kind = "good" ->
            ObjectEntry(WhyText, StrValue("why"), OnPaper, IntValue(4))
      [] kind = "shouting" ->
            ObjectEntry(WhyText, StrValue("WHY"), ListValue(<<<<"ATTENTION">>>>),
                        Absent)
      [] kind = "untyped" -> ObjectEntry(WhyText, Absent, OnPaper, IntValue(1))
      [] kind = "generic" ->
            ObjectEntry(TitleText, StrValue("explain"), OnPaper, IntValue(3))
      [] kind = "off_paper" ->
            ObjectEntry(WhyText, StrValue("how"), ListValue(<<<<"blockchain">>>>),
                        IntValue(3))
      [] kind = "unknown_type" ->
            ObjectEntry(WhyText, StrValue("what"), OnPaper, IntValue(3))
      [] kind = "null_type" -> ObjectEntry(WhyText, Null, OnPaper, IntValue(3))
      [] kind = "no_text" -> ObjectEntry(Absent, StrValue("why"), OnPaper, IntValue(3))
      [] kind = "too_hard" ->
            ObjectEntry(WhyText, StrValue("why"), OnPaper, IntValue(6))
      [] kind = "not_object" -> StrValue(<<"Why", "attention", "?">>)
EntryKinds ==
    {"good", "shouting", "untyped", "generic", "off_paper", "unknown_type",
     "null_type", "no_text", "too_hard", "not_object"}

\* Scenario B of the specification: six well-formed candidates, two of which
\* fail the specificity filter
ScenarioB == <<"good", "generic", "good", "off_paper", "shouting", "untyped">>

KindLists ==
    UNION { [1..n -> EntryKinds] : n \in 0..MaxCandidates } \cup {ScenarioB}

\* response.content of the generation model.  array: the text from the first
\* "[" to the last "]" is a JSON array of these entries; broken: that text is
\* not JSON; prose: no brackets and not JSON; object: no brackets, a JSON
\* object with these keys; scalar: no brackets, a JSON number, true or null.
ArrayReply(kinds) ==
    [kind |-> "array", entries |-> [k \in 1..Len(kinds) |-> Entry(kinds[k])]]
ObjectReply ==
    [kind |-> "object", keys |-> <<StrValue(<<"text">>), StrValue(<<"type">>)>>]
GenerationReplies ==
    {ArrayReply(kinds) : kinds \in KindLists}
        \cup {ProseReply, BrokenReply, ScalarReply, ObjectReply}

\* _parse_llm_response, lines 91-105: the list json.loads returned, or the
\* ValueError raised for a JSONDecodeError
_parse_llm_response(reply) ==
    CASE reply.kind = "array" -> [ok |-> TRUE, data |-> ListValue(reply.entries)]
      [] reply.kind = "object" ->
            [ok |-> TRUE, data |-> [t |-> "object", keys |-> reply.keys]]
      [] reply.kind = "scalar" -> [ok |-> TRUE, data |-> Null]
      [] OTHER -> [ok |-> FALSE, exc |-> "ValueError",
                   msg |-> "LLM did not return valid JSON"]

\* Question(text=q_data['text'], type=QuestionType(q_data.get('type',
\* 'explain').lower()), ...), lines 196-201: the question, with the uuid4 of
\* its construction, or the exception.  The k-th entry draws id k.
NewQuestion(q_data, k) ==
    IF q_data.t # "object" THEN Raised("TypeError")
    ELSE IF q_data.text = Absent THEN Raised("KeyError")
    ELSE LET type == Get(q_data.type, StrValue("explain"))
             expected_concepts == Get(q_data.expected_concepts, ListValue(<<>>))
             difficulty == Get(q_data.difficulty, IntValue(3))
         IN  IF type.t # "str" THEN Raised("AttributeError")
             ELSE IF LowerWord(type.v) \notin QuestionTypes THEN Raised("ValueError")
             ELSE IF \/ q_data.text.t # "str"
                     \/ expected_concepts.t # "list"
                     \/ difficulty.t # "int"
                     \/ difficulty.v < difficulty_ge
                     \/ difficulty.v > difficulty_le
             THEN Raised("ValidationError")
             ELSE [ok |-> TRUE, id |-> k, text |-> q_data.text.v,
                   type |-> LowerWord(type.v),
                   expected_concepts |-> expected_concepts.v,
                   difficulty |-> difficulty.v]

\* `for q_data in questions_data`: a list yields its entries, a dict its keys,
\* and a number, true or null raises TypeError
Iterate(x) ==
    CASE x.t = "list" -> [ok |-> TRUE, v |-> x.v]
      [] x.t = "object" -> [ok |-> TRUE, v |-> x.keys]
      [] OTHER -> Raised("TypeError")

\* Convert that gives up the rest of the reply at the first entry that does
\* not construct
RECURSIVE Convert_StopsAtFirstFailure(_, _)
Convert_StopsAtFirstFailure(questions_data, k) ==
    IF k > Len(questions_data) THEN <<>>
    ELSE LET question == NewQuestion(questions_data[k], k)
         IN  IF question.ok
             THEN <<question>> \o Convert_StopsAtFirstFailure(questions_data, k + 1)
             ELSE <<>>

\* generate, lines 193-206: the entries that construct, in the order of the
\* reply; `except Exception` skips the others
RECURSIVE Convert(_, _)
Convert(questions_data, k) ==
    IF k > Len(questions_data) THEN <<>>
    ELSE LET question == NewQuestion(questions_data[k], k)
         IN  IF question.ok THEN <<question>> \o Convert(questions_data, k + 1)
             ELSE Convert(questions_data, k + 1)

\* lines 121-124 and 133
is_specific(q, text) ==
    \E c \in 1..Len(q.expected_concepts) :
        Contains(LowerText(text), LowerText(q.expected_concepts[c]))
is_generic(q) ==
    \E pattern \in generic_patterns : Contains(LowerText(q.text), pattern)

\* _validate_questions that filters on the denylist alone
RECURSIVE _validate_questions_DenylistOnly(_, _)
_validate_questions_DenylistOnly(questions, text) ==
    IF questions = <<>> THEN <<>>
    ELSE LET q == Head(questions)
             rest == _validate_questions_DenylistOnly(Tail(questions), text)
         IN  IF ~is_generic(q) THEN <<q>> \o rest ELSE rest

\* _validate_questions, lines 107-143
RECURSIVE _validate_questions(_, _)
_validate_questions(questions, text) ==
    IF questions = <<>> THEN <<>>
    ELSE LET q == Head(questions)
             rest == _validate_questions(Tail(questions), text)
         IN  IF is_specific(q, text) /\ ~is_generic(q) THEN <<q>> \o rest ELSE rest

\* validated_questions[:self.num_questions]
Truncate(questions, n) == SubSeq(questions, 1, Min(n, Len(questions)))

NoQuestions == [none |-> TRUE]

\* QuestionGenerator.__init__, where its generate call stands, how often the
\* model was invoked, and where the start handler that called it stands
QuestionGenerator(n) ==
    [num_questions |-> n, pc |-> "idle", invocations |-> 0, reply |-> NoReply,
     questions_data |-> NoData, questions |-> NoQuestions,
     result |-> NoQuestions]

\* ---------------------------------------------------- content_analyzer.py
\* A text by what the splitter looks at: its length in characters and whether
\* it holds anything but whitespace.
Text(name, len, blank) == [name |-> name, len |-> len, blank |-> blank]
Contents ==
    { Text("empty", 0, TRUE), Text("spaces", 3, TRUE),
      Text("short", chunk_size, FALSE), Text("long", chunk_size + 1, FALSE) }

\* models.py: Section, ParsedDocument
Section(heading, content, page_number) ==
    [heading |-> heading, content |-> content, page_number |-> page_number]
Sections ==
    { Section(h, c, pg) : h \in {"Abstract", "Method"}, c \in Contents, pg \in 1..2 }
ParsedDocument(text, sections) == [text |-> text, sections |-> sections]
\* what PDFParser.parse returns: the text is never blank
Documents ==
    { ParsedDocument(t, ss) :
        t \in {c \in Contents : ~c.blank},
        ss \in UNION { [1..n -> Sections] : n \in 0..MaxSections } }

\* How many pieces RecursiveCharacterTextSplitter.split_text may cut a text
\* into: none of a text that is empty or all whitespace (a piece is stripped,
\* and dropped when nothing is left), one of any other text within
\* chunk_size, one or more of a longer one.
Pieces(text) ==
    IF text.blank THEN {0}
    ELSE IF text.len <= chunk_size THEN {1}
    ELSE 1..MaxPieces

\* split_text(text), cut into n pieces
split_text(text, n) == [j \in 1..n |-> [of |-> text.name, piece |-> j]]

\* models.py: TextChunk
TextChunk(text, section, page_number, chunk_index) ==
    [text |-> text, section |-> section, page_number |-> page_number,
     chunk_index |-> chunk_index]

\* lines 85-91, with enumerate counting from 1
SectionChunks_FromOne(section, n) ==
    LET section_chunks == split_text(section.content, n)
    IN  [j \in 1..n |-> TextChunk(section_chunks[j], section.heading,
                                  section.page_number, j)]

\* lines 85-91: the chunks of one section; enumerate counts from 0
SectionChunks(section, n) ==
    LET section_chunks == split_text(section.content, n)
    IN  [j \in 1..n |-> TextChunk(section_chunks[j], section.heading,
                                  section.page_number, j - 1)]

\* lines 94-101: the chunks of a document without sections
TextChunks(text, n) ==
    LET text_chunks == split_text(text, n)
    IN  [j \in 1..n |-> TextChunk(text_chunks[j], "Main Content", 0, j - 1)]

\* SimpleEmbeddings.__init__, with the corpus the vectorizer was fitted on,
\* the embed_documents calls made so far, and what the last call returned
NoCorpus == [none |-> TRUE]
NoVector == [none |-> TRUE]
SimpleEmbeddings ==
    [fitted |-> FALSE, vectorizer |-> NoCorpus, calls |-> 0,
     documents_calls |-> 0, returned |-> NoVector]

\* TfidfVectorizer.fit raises ValueError on a corpus with no term in it
\* ("empty vocabulary")
HasVocabulary(texts) == texts # <<>>

\* lines 40-50: md5 of the text, spread over the vector
_hash_embedding(text) == [kind |-> "hash", of |-> text]
\* vectorizer.transform with the vocabulary of the corpus fitted on
Transform(corpus, text) == [kind |-> "tfidf", fit |-> corpus, of |-> text]

\* embed_documents that fits the vectorizer on every call
embed_documents_Refits(self, texts) ==
    IF ~HasVocabulary(texts)
    THEN [self EXCEPT !.calls = @ + 1, !.documents_calls = @ + 1,
                      !.returned = Raised("ValueError")]
    ELSE [self EXCEPT !.fitted = TRUE, !.vectorizer = texts,
                      !.calls = @ + 1, !.documents_calls = @ + 1,
                      !.returned = Transform(texts, texts)]

\* embed_documents, lines 25-31
embed_documents(self, texts) ==
    IF ~self.fitted
    THEN IF ~HasVocabulary(texts)
         THEN [self EXCEPT !.calls = @ + 1, !.documents_calls = @ + 1,
                           !.returned = Raised("ValueError")]
         ELSE [self EXCEPT !.fitted = TRUE, !.vectorizer = texts,
                           !.calls = @ + 1, !.documents_calls = @ + 1,
                           !.returned = Transform(texts, texts)]
    ELSE [self EXCEPT !.calls = @ + 1, !.documents_calls = @ + 1,
                      !.returned = Transform(self.vectorizer, texts)]

\* embed_query, lines 33-38
embed_query(self, text) ==
    IF ~self.fitted
    THEN [self EXCEPT !.calls = @ + 1, !.returned = _hash_embedding(text)]
    ELSE [self EXCEPT !.calls = @ + 1,
                      !.returned = Transform(self.vectorizer, text)]

NoDocument == [none |-> TRUE]

\* ContentAnalyzer.__init__, and where its chunk_document call stands: the
\* document, the sections done and the chunks made
ContentAnalyzer(document) ==
    [embeddings |-> SimpleEmbeddings, document |-> document, pc |-> "idle",
     done |-> 0, chunks |-> <<>>]

Idle == [pc |-> "idle"]
NoRet == [op |-> "none"]

Init ==
    /\ db = <<>>
    /\ proc = [c \in Callers |-> Idle]
    /\ ret = NoRet
    /\ clock = 1
    /\ evaluator = AnswerEvaluator(min_score, max_score)
    /\ generator = QuestionGenerator(num_questions)
    /\ analyzer = ContentAnalyzer(NoDocument)

\* ------------------------------------------- Spec: one handler at a time
\* main.py lines 287-298, given the questions generate returned
StartSession(user_id, paper_id, questions, now) ==
    /\ FreshId(db) \in SessionIds
    /\ \E o \in {start_interview(db, user_id, paper_id, questions, now)} :
           /\ db' = o.db
           /\ ret' = Response("start", FreshId(db), o,
                              IF o.exc = "" THEN 200 ELSE 500)
    /\ clock' = now
    /\ UNCHANGED <<proc, evaluator>>

StartInterview(user_id, paper_id, questions, now) ==
    /\ StartSession(user_id, paper_id, questions, now)
    /\ UNCHANGED <<generator, analyzer>>

SubmitAnswer(session_id, answer, evaluation, timestamp, completed_now) ==
    /\ \E o \in {submit_answer(db, session_id, answer, evaluation, timestamp,
                              completed_now)} :
           /\ db' = o.db
           /\ ret' = Response("submit", session_id, o, SubmitHttp(o))
    /\ clock' = completed_now
    /\ UNCHANGED <<proc, evaluator, generator, analyzer>>

PauseSession(session_id) ==
    /\ \E o \in {pause_session(db, session_id)} :
           /\ db' = o.db
           /\ ret' = Response("pause", session_id, o, IF o.ok THEN 200 ELSE 400)
    /\ UNCHANGED <<proc, clock, evaluator, generator, analyzer>>

ResumeSession(session_id) ==
    /\ \E o \in {resume_session(db, session_id)} :
           /\ db' = o.db
           /\ ret' = Response("resume", session_id, o, IF o.ok THEN 200 ELSE 400)
    /\ UNCHANGED <<proc, clock, evaluator, generator, analyzer>>

GetSessionStatus(session_id) ==
    /\ \E o \in {get_session_status(db, session_id)} :
           /\ db' = o.db
           /\ ret' = Response("status", session_id, o, IF o.ok THEN 200 ELSE 404)
    /\ UNCHANGED <<proc, clock, evaluator, generator, analyzer>>

Next ==
    \/ \E u \in Users, p \in Papers, qs \in QuestionLists, t \in Later(clock) :
          StartInterview(u, p, qs, t)
    \/ \E s \in RequestIds, a \in Answers : \E e \in EvaluatorReplies(db, s) :
          \E t1 \in Readings(e, clock) : \E t2 \in Readings(e, t1) :
          SubmitAnswer(s, a, e, t1, t2)
    \/ \E s \in RequestIds : PauseSession(s)
    \/ \E s \in RequestIds : ResumeSession(s)
    \/ \E s \in RequestIds : GetSessionStatus(s)

Spec == Init /\ [][Next]_vars

\* ------------------------------- SpecConc: callers interleave at the table
\* A call in flight: its position, the operation, the session id it was given,
\* the copy of the session get_session returned to it, and (submit_answer)
\* the answer text and the evaluation once the evaluator has returned.
InFlight(pc, op, session_id, session, answer, evaluation) ==
    [pc |-> pc, op |-> op, sid |-> session_id, session |-> session,
     answer |-> answer, evaluation |-> evaluation]

\* create_session commits its one INSERT: start_interview is a single step
StartInterviewC(c, user_id, paper_id, questions, now) ==
    /\ proc[c] = Idle
    /\ StartInterview(user_id, paper_id, questions, now)

\* get_session_status only reads
GetSessionStatusC(c, session_id) ==
    /\ proc[c] = Idle
    /\ GetSessionStatus(session_id)

\* submit_answer lines 84-96: read the session and check it
SubmitAnswer_get(c, session_id, answer) ==
    /\ proc[c] = Idle
    /\ LET session == get_session(db, session_id)
           failure == SubmitPrecheck(session)
       IN  IF failure # ""
           THEN /\ ret' = Response("submit", session_id,
                                   Outcome(db, "ValueError", failure, FALSE, 0,
                                           NoResult, NoSession), 400)
                /\ UNCHANGED proc
           ELSE /\ proc' = [proc EXCEPT ![c] =
                              InFlight("evaluate", "submit", session_id, session,
                                       answer, NoEvaluation)]
                /\ UNCHANGED ret
    /\ UNCHANGED <<db, clock, evaluator, generator, analyzer>>

\* submit_answer line 101: the evaluator returns or raises
SubmitAnswer_evaluate(c, evaluation) ==
    /\ proc[c].pc = "evaluate"
    /\ IF evaluation.ok
       THEN /\ proc' = [proc EXCEPT ![c].pc = "save", ![c].evaluation = evaluation]
            /\ UNCHANGED ret
       ELSE /\ proc' = [proc EXCEPT ![c] = Idle]
            /\ ret' = Response("submit", proc[c].sid,
                               Outcome(db, "EvaluatorError", "evaluate raised", FALSE,
                                       current_question(proc[c].session).id,
                                       NoResult, NoSession), 500)
    /\ UNCHANGED <<db, clock, evaluator, generator, analyzer>>

\* submit_answer lines 103-127: record on the copy, save, return
SubmitAnswer_save(c, timestamp, completed_now) ==
    /\ proc[c].pc = "save" /\ proc[c].op = "submit"
    /\ LET recorded == RecordAnswer(proc[c].session, proc[c].answer,
                                    proc[c].evaluation, timestamp, completed_now)
       IN  /\ db' = save_session(db, recorded)
           /\ ret' = Response("submit", proc[c].sid,
                              Outcome(db', "", "", TRUE,
                                      current_question(proc[c].session).id,
                                      proc[c].evaluation, recorded), 200)
    /\ proc' = [proc EXCEPT ![c] = Idle]
    /\ clock' = completed_now
    /\ UNCHANGED <<evaluator, generator, analyzer>>

\* pause_session lines 168-171
PauseSession_get(c, session_id) ==
    /\ proc[c] = Idle
    /\ LET session == get_session(db, session_id)
       IN  IF ~PauseAllowed(session)
           THEN /\ ret' = Response("pause", session_id,
                                   Outcome(db, "", "", FALSE, 0, NoResult,
                                           NoSession), 400)
                /\ UNCHANGED proc
           ELSE /\ proc' = [proc EXCEPT ![c] =
                              InFlight("save", "pause", session_id, session, "",
                                       NoEvaluation)]
                /\ UNCHANGED ret
    /\ UNCHANGED <<db, clock, evaluator, generator, analyzer>>

\* pause_session lines 173-177
PauseSession_save(c) ==
    /\ proc[c].pc = "save" /\ proc[c].op = "pause"
    /\ LET paused == [proc[c].session EXCEPT !.status = PAUSED]
       IN  /\ db' = save_session(db, paused)
           /\ ret' = Response("pause", proc[c].sid,
                              Outcome(db', "", "", TRUE, 0, NoResult, paused), 200)
    /\ proc' = [proc EXCEPT ![c] = Idle]
    /\ UNCHANGED <<clock, evaluator, generator, analyzer>>

\* resume_session lines 189-192
ResumeSession_get(c, session_id) ==
    /\ proc[c] = Idle
    /\ LET session == get_session(db, session_id)
       IN  IF ~ResumeAllowed(session)
           THEN /\ ret' = Response("resume", session_id,
                                   Outcome(db, "", "", FALSE, 0, NoResult,
                                           NoSession), 400)
                /\ UNCHANGED proc
           ELSE /\ proc' = [proc EXCEPT ![c] =
                              InFlight("save", "resume", session_id, session, "",
                                       NoEvaluation)]
                /\ UNCHANGED ret
    /\ UNCHANGED <<db, clock, evaluator, generator, analyzer>>

\* resume_session lines 194-198
ResumeSession_save(c) ==
    /\ proc[c].pc = "save" /\ proc[c].op = "resume"
    /\ LET resumed == [proc[c].session EXCEPT !.status = IN_PROGRESS]
       IN  /\ db' = save_session(db, resumed)
           /\ ret' = Response("resume", proc[c].sid,
                              Outcome(db', "", "", TRUE, 0, NoResult, resumed), 200)
    /\ proc' = [proc EXCEPT ![c] = Idle]
    /\ UNCHANGED <<clock, evaluator, generator, analyzer>>

NextConc ==
    \/ \E c \in Callers, u \in Users, p \in Papers, qs \in QuestionLists,
          t \in Later(clock) :
          StartInterviewC(c, u, p, qs, t)
    \/ \E c \in Callers, s \in RequestIds : GetSessionStatusC(c, s)
    \/ \E c \in Callers, s \in RequestIds, a \in Answers : SubmitAnswer_get(c, s, a)
    \/ \E c \in Callers, e \in EvaluationOutcomes : SubmitAnswer_evaluate(c, e)
    \/ \E c \in Callers, t1 \in Later(clock) : \E t2 \in Later(t1) :
          SubmitAnswer_save(c, t1, t2)
    \/ \E c \in Callers, s \in RequestIds : PauseSession_get(c, s)
    \/ \E c \in Callers : PauseSession_save(c)
    \/ \E c \in Callers, s \in RequestIds : ResumeSession_get(c, s)
    \/ \E c \in Callers : ResumeSession_save(c)

SpecConc == Init /\ [][NextConc]_vars

\* --------------------------- SpecEval: one evaluate call of an AnswerEvaluator
\* The evaluator of a deployment with any configured score range.
InitEval ==
    /\ db = <<>>
    /\ proc = [c \in Callers |-> Idle]
    /\ ret = NoRet
    /\ clock = 1
    /\ \E lo \in ConfiguredScores, hi \in ConfiguredScores :
          lo <= hi /\ evaluator = AnswerEvaluator(lo, hi)
    /\ generator = QuestionGenerator(num_questions)
    /\ analyzer = ContentAnalyzer(NoDocument)

\* evaluate lines 164-167: the model replies and the reply is parsed
Evaluate_parse(reply) ==
    /\ evaluator.pc = "idle"
    /\ LET eval_data == _parse_evaluation_response(evaluator, reply)
       IN  evaluator' =
             IF eval_data.ok
             THEN [evaluator EXCEPT !.pc = "parsed", !.reply = reply,
                                    !.eval_data = eval_data]
             ELSE [evaluator EXCEPT !.pc = "done", !.reply = reply,
                                    !.result = eval_data]
    /\ UNCHANGED <<db, proc, ret, clock, generator, analyzer>>

\* evaluate lines 170-183: the result is constructed and returned
Evaluate_construct ==
    /\ evaluator.pc = "parsed"
    /\ evaluator' = [evaluator EXCEPT !.pc = "done",
                                      !.result = ConstructResult(evaluator.eval_data)]
    /\ UNCHANGED <<db, proc, ret, clock, generator, analyzer>>

\* EvaluationResult(score=..., ...) called directly, as the tests do
NewEvaluationResult(score, correctness) ==
    /\ evaluator.pc = "idle"
    /\ evaluator' = [evaluator EXCEPT
                        !.pc = "constructed",
                        !.result = EvaluationResult(score, correctness, "fb",
                                                    <<>>, <<>>)]
    /\ UNCHANGED <<db, proc, ret, clock, generator, analyzer>>

\* the model is invoked, and replies, only for a call that has not returned
RepliesTo(self) == IF self.pc = "idle" THEN Replies ELSE {}

NextEval ==
    \/ \E reply \in RepliesTo(evaluator) : Evaluate_parse(reply)
    \/ Evaluate_construct
    \/ \E score \in ReplyScores, correctness \in {CORRECT, INCORRECT} :
          NewEvaluationResult(score, correctness)

SpecEval == InitEval /\ [][NextEval]_vars

\* ------------------- SpecGen: one POST /interview/start, generate included
\* A deployment with any configured number of questions, and no session yet.
InitGen ==
    /\ db = <<>>
    /\ proc = [c \in Callers |-> Idle]
    /\ ret = NoRet
    /\ clock = 1
    /\ evaluator = AnswerEvaluator(min_score, max_score)
    /\ \E n \in QuestionCounts : generator = QuestionGenerator(n)
    /\ analyzer = ContentAnalyzer(NoDocument)

\* generate line 188: the model is invoked and replies
Generate_invoke(reply) ==
    /\ generator.pc = "idle"
    /\ generator' = [generator EXCEPT !.pc = "invoked", !.reply = reply,
                                      !.invocations = @ + 1]
    /\ UNCHANGED <<db, proc, ret, clock, evaluator, analyzer>>

\* generate line 191
Generate_parse ==
    /\ generator.pc = "invoked"
    /\ LET parsed == _parse_llm_response(generator.reply)
       IN  generator' =
             IF parsed.ok
             THEN [generator EXCEPT !.pc = "parsed", !.questions_data = parsed.data]
             ELSE [generator EXCEPT !.pc = "raised", !.result = Raised(parsed.exc)]
    /\ UNCHANGED <<db, proc, ret, clock, evaluator, analyzer>>

\* generate lines 193-206
Generate_convert ==
    /\ generator.pc = "parsed"
    /\ LET items == Iterate(generator.questions_data)
       IN  generator' =
             IF ~items.ok
             THEN [generator EXCEPT !.pc = "raised", !.result = items]
             ELSE [generator EXCEPT !.pc = "converted",
                                    !.questions = Convert(items.v, 1)]
    /\ UNCHANGED <<db, proc, ret, clock, evaluator, analyzer>>

\* generate lines 209-220
Generate_return ==
    /\ generator.pc = "converted"
    /\ generator' =
          [generator EXCEPT
              !.pc = "returned",
              !.result = Truncate(_validate_questions(generator.questions, paper_text),
                                  generator.num_questions)]
    /\ UNCHANGED <<db, proc, ret, clock, evaluator, analyzer>>

\* the questions as the session keeps them
SessionQuestions(questions) ==
    [k \in 1..Len(questions) |-> [id |-> questions[k].id, text |-> questions[k].text]]

\* main.py lines 284-298: generate returned, the interview is started
StartInterview_start(user_id, paper_id, now) ==
    /\ generator.pc = "returned"
    /\ StartSession(user_id, paper_id, SessionQuestions(generator.result), now)
    /\ generator' = [generator EXCEPT !.pc = "answered"]
    /\ UNCHANGED analyzer

\* main.py lines 300-302: generate raised, the handler answers 500
StartInterview_error ==
    /\ generator.pc = "raised"
    /\ ret' = Response("start", 0,
                       Outcome(db, generator.result.exc, "", FALSE, 0, NoResult,
                               NoSession), 500)
    /\ generator' = [generator EXCEPT !.pc = "answered"]
    /\ UNCHANGED <<db, proc, clock, evaluator, analyzer>>

\* the model is invoked only by a generate call that has not invoked it yet
GenerationRepliesTo(self) == IF self.pc = "idle" THEN GenerationReplies ELSE {}

NextGen ==
    \/ \E reply \in GenerationRepliesTo(generator) : Generate_invoke(reply)
    \/ Generate_parse
    \/ Generate_convert
    \/ Generate_return
    \/ \E u \in Users, p \in Papers, t \in Later(clock) : StartInterview_start(u, p, t)
    \/ StartInterview_error

SpecGen == InitGen /\ [][NextGen]_vars

\* --------------------------- SpecKb: one chunk_document call of an analyzer
InitKb ==
    /\ db = <<>>
    /\ proc = [c \in Callers |-> Idle]
    /\ ret = NoRet
    /\ clock = 1
    /\ evaluator = AnswerEvaluator(min_score, max_score)
    /\ generator = QuestionGenerator(num_questions)
    /\ \E document \in Documents : analyzer = ContentAnalyzer(document)

\* chunk_document lines 82-91: the next section is split and its chunks made
ChunkSection(n) ==
    /\ analyzer.pc \in {"idle", "sections"}
    /\ analyzer.done < Len(analyzer.document.sections)
    /\ LET section == analyzer.document.sections[analyzer.done + 1]
       IN  /\ n \in Pieces(section.content)
           /\ analyzer' =
                 [analyzer EXCEPT
                     !.pc = "sections",
                     !.done = @ + 1,
                     !.chunks = @ \o SectionChunks(section, n)]
    /\ UNCHANGED <<db, proc, ret, clock, evaluator, generator>>

\* chunk_document lines 92-101: a document without sections is split whole
ChunkText(n) ==
    /\ analyzer.pc = "idle"
    /\ analyzer.document.sections = <<>>
    /\ n \in Pieces(analyzer.document.text)
    /\ analyzer' = [analyzer EXCEPT
                        !.pc = "returned",
                        !.chunks = TextChunks(analyzer.document.text, n)]
    /\ UNCHANGED <<db, proc, ret, clock, evaluator, generator>>

\* chunk_document lines 103-104: every section is done
ChunkReturn ==
    /\ analyzer.pc = "sections"
    /\ analyzer.done = Len(analyzer.document.sections)
    /\ analyzer' = [analyzer EXCEPT !.pc = "returned"]
    /\ UNCHANGED <<db, proc, ret, clock, evaluator, generator>>

NextKb ==
    \/ \E n \in 0..MaxPieces : ChunkSection(n)
    \/ \E n \in 0..MaxPieces : ChunkText(n)
    \/ ChunkReturn

SpecKb == InitKb /\ [][NextKb]_vars

\* ------------------------------- SpecAnswer: POST /interview/answer requests
\* knowledge_bases_store after the uploads of two papers: upload_pdf stores
\* analyze(parsed_doc, paper.id) under paper.id (main.py lines 230-231)
KnowledgeBase(paper_id) == [paper_id |-> paper_id]
knowledge_bases_store == [p \in {"p1", "p2"} |-> KnowledgeBase(p)]
\* a paper_id a request may carry: "p0" is the id of no uploaded paper
RequestPapers == DOMAIN knowledge_bases_store \cup {"p0"}
NoKnowledgeBase == [paper_id |-> ""]

\* the response of the handler with the knowledge base it handed on
AnswerResponse(session_id, paper_id, o, http, kb) ==
    [op |-> "answer", sid |-> session_id, paper_id |-> paper_id, exc |-> o.exc,
     msg |-> o.msg, ok |-> o.ok, evaluated |-> o.evaluated, result |-> o.result,
     session |-> o.session, http |-> http, kb |-> kb, found |-> db]

\* POST /interview/start for an uploaded paper
StartInterviewOn(user_id, paper_id, questions, now) ==
    StartInterview(user_id, paper_id, questions, now)

\* main.py lines 316-326: knowledge_bases_store.get(request.paper_id) is None;
\* the HTTPException(404) is raised inside the try and `except Exception`
\* answers 500
SubmitAnswer_NoPaper(session_id, paper_id) ==
    /\ paper_id \notin DOMAIN knowledge_bases_store
    /\ ret' = AnswerResponse(session_id, paper_id,
                             Outcome(db, "HTTPException", "Paper not found", FALSE,
                                     0, NoResult, NoSession), 500, NoKnowledgeBase)
    /\ UNCHANGED <<db, proc, clock, evaluator, generator, analyzer>>

\* main.py lines 321-358: the knowledge base of request.paper_id goes to
\* interview_controller.submit_answer, and to evaluate if the checks pass
SubmitAnswer_WithPaper(session_id, paper_id, answer, evaluation, timestamp, completed_now) ==
    /\ paper_id \in DOMAIN knowledge_bases_store
    /\ \E o \in {submit_answer(db, session_id, answer, evaluation, timestamp,
                              completed_now)} :
           /\ db' = o.db
           /\ ret' = AnswerResponse(session_id, paper_id, o, SubmitHttp(o),
                                    knowledge_bases_store[paper_id])
    /\ clock' = completed_now
    /\ UNCHANGED <<proc, evaluator, generator, analyzer>>

NextAnswer ==
    \/ \E u \in Users, p \in DOMAIN knowledge_bases_store, qs \in QuestionLists,
          t \in Later(clock) :
          StartInterviewOn(u, p, qs, t)
    \/ \E s \in RequestIds, p \in RequestPapers : SubmitAnswer_NoPaper(s, p)
    \/ \E s \in RequestIds, p \in RequestPapers, a \in Answers :
          \E e \in EvaluatorReplies(db, s) :
          \E t1 \in Readings(e, clock) : \E t2 \in Readings(e, t1) :
          SubmitAnswer_WithPaper(s, p, a, e, t1, t2)

SpecAnswer == Init /\ [][NextAnswer]_vars

\* ------------------------ SpecEmbed: calls on one SimpleEmbeddings instance
\* The texts FAISS.from_documents hands to embed_documents: the page_content
\* of the chunks of a paper (none when the document yields no chunk), and the
\* query texts similarity_search hands to embed_query.
Corpora == {<<>>, <<"attention">>, <<"recurrence", "convolution">>}
Queries == {"attention", "methodology"}

\* FAISS.from_documents(documents, self.embeddings), line 133
EmbedDocuments(texts) ==
    /\ analyzer.embeddings.calls < MaxCalls
    /\ analyzer' = [analyzer EXCEPT !.embeddings = embed_documents(@, texts)]
    /\ UNCHANGED <<db, proc, ret, clock, evaluator, generator>>

\* vector_store.similarity_search(query, k=k), line 247
EmbedQuery(text) ==
    /\ analyzer.embeddings.calls < MaxCalls
    /\ analyzer' = [analyzer EXCEPT !.embeddings = embed_query(@, text)]
    /\ UNCHANGED <<db, proc, ret, clock, evaluator, generator>>

NextEmbed ==
    \/ \E texts \in Corpora : EmbedDocuments(texts)
    \/ \E text \in Queries : EmbedQuery(text)

SpecEmbed == Init /\ [][NextEmbed]_vars

\* ------------------------------------------------------------ properties
\* The session a reload of row s yields.
Persisted(s) == get_session(db, s)

\* Caller c takes the step that saves its copy and returns.
Saves(c) == proc[c].pc = "save" /\ proc'[c] = Idle

\* Some submit_answer call on session id s runs in this step (Spec).
SubmitStep(s) ==
    \E a \in Answers : \E e \in EvaluatorReplies(db, s) :
        \E t1 \in Readings(e, clock) : \E t2 \in Readings(e, t1) :
            SubmitAnswer(s, a, e, t1, t2)

\* This step ends a submit_answer call on session id s.  Every handler of Spec
\* leaves its own response in ret, so these are the steps SubmitStep(s) takes.
SubmitReturns(s) == ret'.op = "submit" /\ ret'.sid = s

SubmitStepsAreSubmitReturns ==
    [][\A s \in RequestIds : SubmitStep(s) <=> SubmitReturns(s)]_vars

\* C1: every persisted session has as many answers as its
\* current_question_index says, after every handler.
C1_AnswersMatchIndex ==
    \A s \in DOMAIN db :
        Len(Persisted(s).answers) = Persisted(s).current_question_index

\* a session that was paused, resumed or not, and has two recorded answers
C1_Witness ==
    \E s \in DOMAIN db :
        /\ Persisted(s).current_question_index = 2
        /\ ret.op = "submit" /\ ret.sid = s /\ ret.ok

\* C2: a submit_answer call never persists an answer for a question when the
\* table already holds the answer another call recorded for that question
\* after reading the same current_question_index.
C2_SubmitIsOneTransaction ==
    [][\A c \in Callers :
          (Saves(c) /\ proc[c].op = "submit") =>
              Len(Persisted(proc[c].sid).answers)
                  <= proc[c].session.current_question_index]_vars

\* C3: a call that saves a copy of the session that is no longer what the
\* table holds fails with ConcurrentModification and writes nothing.
C3_StaleWriteIsRejected ==
    [][\A c \in Callers :
          (Saves(c) /\ Persisted(proc[c].sid) # proc[c].session) =>
              (ret'.exc = "ConcurrentModification" /\ db' = db)]_vars

\* C4: a persisted session is completed exactly when it has as many answers
\* as questions, whatever the length of the question list.
C4_CompletedIffAllAnswered ==
    \A s \in DOMAIN db :
        Persisted(s).status = COMPLETED
            <=> Len(Persisted(s).answers) = Len(Persisted(s).questions)

\* The session a reload of row s yielded when the last call began.
Found(s) == get_session(ret.found, s)

\* C5: a completed session stays completed, and a submit_answer call on it
\* fails as already completed, invokes no evaluation and leaves the table as
\* it was.
C5_NoSubmitAfterCompleted ==
    ret.op # "none" =>
        \A s \in DOMAIN ret.found :
            Found(s).status = COMPLETED =>
                /\ db[s].status = COMPLETED
                /\ (ret.op = "submit" /\ ret.sid = s) =>
                      /\ ret.exc = "ValueError"
                      /\ ret.msg = "Session is already completed"
                      /\ ~ret.ok
                      /\ ret.evaluated = 0
                      /\ db = ret.found

\* the submit after the last answer of a session with questions was refused
C5_Witness ==
    /\ ret.op = "submit" /\ ret.msg = "Session is already completed"
    /\ ret.sid \in DOMAIN db
    /\ Persisted(ret.sid).status = COMPLETED
    /\ Len(Persisted(ret.sid).answers) = MaxQuestions

\* C6: the persisted status of a completed session never changes again,
\* under any interleaving of calls.
C6_CompletedIsTerminal ==
    [][\A s \in DOMAIN db :
          db[s].status = COMPLETED => db'[s].status = COMPLETED]_vars

\* C7: the persisted status of a session changes only from in_progress to
\* paused, from in_progress to completed, or from paused to in_progress.
C7_OnlyAllowedTransitions ==
    [][\A s \in DOMAIN db :
          \/ db'[s].status = db[s].status
          \/ <<db[s].status, db'[s].status>> \in
                {<<IN_PROGRESS, PAUSED>>, <<IN_PROGRESS, COMPLETED>>,
                 <<PAUSED, IN_PROGRESS>>}]_vars

\* C8: a persisted session has completed_at set exactly when its status is
\* completed.
C8_CompletedAtIffCompleted ==
    \A s \in DOMAIN db :
        Persisted(s).completed_at # NoTime <=> Persisted(s).status = COMPLETED

\* the last answer of a session has just been recorded and stamped
C8_Witness ==
    /\ ret.op = "submit" /\ ret.ok /\ ret.sid \in DOMAIN db
    /\ Persisted(ret.sid).status = COMPLETED
    /\ Persisted(ret.sid).completed_at # NoTime

\* C9: starting an interview on an empty question list succeeds and leaves a
\* session that is completed, at index 0, with no answers.
C9_EmptyStartIsComplete ==
    (ret.op = "start" /\ Len(Persisted(ret.sid).questions) = 0) =>
        /\ ret.exc = "" /\ ret.http = 200
        /\ Persisted(ret.sid).status = COMPLETED
        /\ Persisted(ret.sid).current_question_index = 0
        /\ Persisted(ret.sid).answers = <<>>

\* a submit_answer response refusing the call before any evaluation
ProtocolFailure(r) == r.op = "submit" /\ ~r.ok /\ r.evaluated = 0

\* C10: two submit_answer calls in a row that are refused for different
\* reasons (no such session, already completed, no current question) raise
\* errors of different kinds.
C10_DistinctErrorKinds ==
    [][(ProtocolFailure(ret) /\ ProtocolFailure(ret') /\ ret.msg # ret'.msg)
          => ret.exc # ret'.exc]_vars

\* C11: a submit_answer call that succeeds on a session at index i has invoked
\* the evaluator on questions[i], has appended one record carrying that
\* question's id and the score, feedback and correctness of the result it
\* returns, has moved the index to i+1, has completed and stamped the session
\* exactly when i+1 is the number of questions, and all of it is in the table
\* when it returns.
C11_SubmitRecordsOneAnswer ==
    (ret.op = "submit" /\ ret.ok) =>
        LET s == ret.sid
            before == Found(s)
            after == Persisted(s)
            i == before.current_question_index
            n == Len(before.answers)
            last == after.answers[n + 1]
        IN  /\ s \in DOMAIN ret.found
            /\ i < Len(before.questions)
            /\ ret.evaluated = before.questions[i + 1].id
            /\ Len(after.answers) = n + 1
            /\ SubSeq(after.answers, 1, n) = before.answers
            /\ last.question_id = before.questions[i + 1].id
            /\ last.answer \in Answers
            /\ last.score = ret.result.score
            /\ last.feedback = ret.result.feedback
            /\ last.correctness = ret.result.correctness
            /\ after.current_question_index = i + 1
            /\ after.questions = before.questions
            /\ IF i + 1 = Len(before.questions)
               THEN /\ after.status = COMPLETED
                    /\ after.completed_at = clock
               ELSE /\ after.status = before.status
                    /\ after.completed_at = NoTime
            /\ \A other \in DOMAIN db \ {s} : db[other] = ret.found[other]

\* the first of two answers was recorded with the top score
C11_Witness ==
    /\ ret.op = "submit" /\ ret.ok /\ ret.sid \in DOMAIN db
    /\ ret.result.score = max_score
    /\ Len(Persisted(ret.sid).questions) = 2
    /\ Persisted(ret.sid).current_question_index = 1
    /\ Persisted(ret.sid).status = IN_PROGRESS

\* C12: pause_session succeeds exactly when the session exists and is
\* in_progress, and then changes nothing but its status, to paused; on any
\* other session id it fails and leaves the table as it was.
C12_PauseOnlyInProgress ==
    ret.op = "pause" =>
        LET s == ret.sid
        IN  /\ ret.ok <=> (s \in DOMAIN ret.found /\ Found(s).status = IN_PROGRESS)
            /\ ret.ok => /\ db = [ret.found EXCEPT ![s].status = PAUSED]
                         /\ Persisted(s) = [Found(s) EXCEPT !.status = PAUSED]
            /\ ~ret.ok => db = ret.found

\* a session with one recorded answer has just been paused
C12_Witness ==
    /\ ret.op = "pause" /\ ret.ok /\ ret.sid \in DOMAIN db
    /\ Persisted(ret.sid).status = PAUSED
    /\ Len(Persisted(ret.sid).answers) = 1

\* C13: resume_session succeeds exactly when the session exists and is
\* paused, and then changes nothing but its status, to in_progress; on any
\* other session id it fails and leaves the table as it was.
C13_ResumeOnlyPaused ==
    ret.op = "resume" =>
        LET s == ret.sid
        IN  /\ ret.ok <=> (s \in DOMAIN ret.found /\ Found(s).status = PAUSED)
            /\ ret.ok => /\ db = [ret.found EXCEPT ![s].status = IN_PROGRESS]
                         /\ Persisted(s) = [Found(s) EXCEPT !.status = IN_PROGRESS]
            /\ ~ret.ok => db = ret.found

\* a resume was refused on a completed session that has its answers
C13_Witness ==
    /\ ret.op = "resume" /\ ~ret.ok /\ ret.sid \in DOMAIN db
    /\ Persisted(ret.sid).status = COMPLETED
    /\ Len(Persisted(ret.sid).answers) = 1

\* C14: pausing an in_progress session succeeds, and a resume that follows it
\* with no other call in between succeeds and leaves the session, and the
\* whole table, exactly as they were before the pause; the table a successful
\* resume found is the table it leaves, paused.
C14_PauseResumeRoundTrip ==
    /\ (ret.op = "pause" /\ ret.sid \in DOMAIN ret.found
          /\ Found(ret.sid).status = IN_PROGRESS) =>
          LET resumed == resume_session(db, ret.sid)
          IN  /\ ret.ok
              /\ resumed.ok
              /\ resumed.db = ret.found
              /\ get_session(resumed.db, ret.sid) = Found(ret.sid)
    /\ (ret.op = "resume" /\ ret.ok) =>
          LET paused == pause_session(db, ret.sid)
          IN  /\ Persisted(ret.sid) = [Found(ret.sid) EXCEPT !.status = IN_PROGRESS]
              /\ paused.ok
              /\ paused.db = ret.found

\* a session with one recorded answer is in_progress again after a resume
C14_Witness ==
    /\ ret.op = "resume" /\ ret.ok /\ ret.sid \in DOMAIN db
    /\ Persisted(ret.sid).status = IN_PROGRESS
    /\ Persisted(ret.sid).current_question_index = 1
    /\ Len(Persisted(ret.sid).answers) = 1

\* C15: get_session_status leaves the table as it was, returns None exactly
\* when no session has the id, and returns the same snapshot again when it is
\* called a second time with no other call in between.
C15_StatusReadsOnly ==
    ret.op = "status" =>
        /\ db = ret.found
        /\ (ret.sid \notin DOMAIN db) <=> (ret.result = NoResult)
        /\ (ret.sid \notin DOMAIN db) <=> ~ret.ok
        /\ LET again == get_session_status(db, ret.sid)
           IN  /\ again.result = ret.result
               /\ again.ok = ret.ok
               /\ again.db = ret.found

\* the snapshot of a paused session with one recorded answer was returned
C15_Witness ==
    /\ ret.op = "status" /\ ret.ok
    /\ ret.result.status = PAUSED
    /\ Len(ret.result.answers) = 1
    /\ ret.result.questions_remaining = 1

\* C16: the Session object a start, submit_answer, pause or resume call
\* handed to the table is, field for field, the Session a reload by its id
\* yields once the call has returned.
C16_PersistReloadRoundTrip ==
    (ret.op \in {"start", "submit", "pause", "resume"} /\ ret.session # NoSession) =>
        /\ ret.session.id = ret.sid
        /\ get_session(db, ret.sid) = ret.session

\* a completed session with two stamped answers was saved and reloads equal
C16_Witness ==
    /\ ret.op = "submit" /\ ret.session # NoSession
    /\ ret.session.status = COMPLETED
    /\ ret.session.completed_at # NoTime
    /\ Len(ret.session.answers) = 2
    /\ Persisted(ret.sid) = ret.session

\* the scores of a list of answer records, added up front to back
ScoresAddedUp(answers) ==
    LET upto[k \in 0..Len(answers)] ==
            IF k = 0 THEN 0 ELSE upto[k - 1] + answers[k].score
    IN  upto[Len(answers)]

Evaluated == evaluator.pc = "done"

\* C18: every EvaluationResult, returned by evaluate or constructed directly,
\* has a score within the configured min_score..max_score, and evaluate has
\* clamped the score a reply reports into that range before it constructs
\* the result.
C18_ScoreWithinConfiguredRange ==
    /\ (evaluator.pc \in {"done", "constructed"} /\ evaluator.result.ok) =>
          /\ evaluator.min_score <= evaluator.result.score
          /\ evaluator.result.score <= evaluator.max_score
    /\ (evaluator.pc = "parsed" /\ evaluator.reply.kind = "object"
          /\ evaluator.reply.score.t = "int") =>
          evaluator.eval_data.score =
              Max(evaluator.min_score,
                  Min(evaluator.max_score, evaluator.reply.score.v))

\* (min_score + max_score) // 2
Midpoint(self) == (self.min_score + self.max_score) \div 2

LacksAField(reply) ==
    /\ reply.kind = "object"
    /\ Absent \in {reply.score, reply.correctness, reply.feedback,
                    reply.factual_errors, reply.missing_concepts}

\* C20: when the reply is a JSON object that lacks any of score, correctness,
\* feedback, factual_errors and missing_concepts, evaluate returns the fixed
\* default result of a parse failure, none of the reply's fields in it.
C20_MissingFieldGivesDefault ==
    (Evaluated /\ LacksAField(evaluator.reply)) =>
        /\ evaluator.result.ok
        /\ evaluator.result.score = DefaultEvaluation.score
        /\ evaluator.result.correctness = DefaultEvaluation.correctness.v
        /\ evaluator.result.feedback = DefaultEvaluation.feedback.v
        /\ evaluator.result.factual_errors = <<>>
        /\ evaluator.result.missing_concepts = <<>>

\* an evaluator with the default score range
DefaultRange(self) == self.min_score = min_score /\ self.max_score = max_score

\* C21: evaluate lower-cases the reply's correctness and checks it against
\* correct / partially_correct / incorrect; given a value outside the
\* enumeration it returns a result with correctness partially_correct, and
\* given a score that is no number it returns a result as well.
C21_UnrecognisedValuesGiveResult ==
    (Evaluated /\ DefaultRange(evaluator) /\ evaluator.reply.kind = "object") =>
        LET reply == evaluator.reply
            result == evaluator.result
        IN  /\ (reply.correctness.t = "str" /\ reply.score.t = "int") =>
                  /\ result.ok
                  /\ result.correctness =
                        IF IsCorrectness(Lower(reply.correctness.v))
                        THEN Lower(reply.correctness.v) ELSE PARTIALLY_CORRECT
            /\ reply.score.t \in {"null", "str"} => result.ok

\* the generate call has returned its questions
Generated == generator.pc \in {"returned", "answered"}

\* the positions of the entries that construct a Question which passes the
\* specificity filter: an expected concept occurs in the paper, whatever the
\* case, and no denylisted pattern occurs in the text
Passing(entries) ==
    { k \in 1..Len(entries) :
        LET q == NewQuestion(entries[k], k)
        IN  /\ q.ok
            /\ \E c \in 1..Len(q.expected_concepts) :
                  Contains(LowerText(paper_text), LowerText(q.expected_concepts[c]))
            /\ \A pattern \in generic_patterns :
                  ~Contains(LowerText(q.text), pattern) }

WellFormed(entry) ==
    /\ entry.t = "object"
    /\ entry.text.t = "str"
    /\ \/ entry.type = Absent
       \/ entry.type.t = "str" /\ LowerWord(entry.type.v) \in QuestionTypes
    /\ \/ entry.difficulty = Absent
       \/ /\ entry.difficulty.t = "int"
          /\ entry.difficulty.v \in difficulty_ge..difficulty_le

\* C23: an entry of a reply's array whose type is unknown or whose shape is
\* invalid is dropped alone: generate does not fail on it, and the questions
\* constructed are the well-formed entries, all of them, in the reply's order.
C23_BadEntriesDroppedAlone ==
    /\ generator.pc = "raised" => generator.reply.kind # "array"
    /\ (generator.pc \in {"converted", "returned", "answered"}
          /\ generator.reply.kind = "array") =>
          LET entries == generator.reply.entries
              questions == generator.questions
              W == {k \in 1..Len(entries) : WellFormed(entries[k])}
          IN  /\ Len(questions) = Cardinality(W)
              /\ {questions[j].id : j \in 1..Len(questions)} = W
              /\ \A i, j \in 1..Len(questions) :
                    i < j => questions[i].id < questions[j].id
              /\ \A j \in 1..Len(questions) :
                    questions[j].text = entries[questions[j].id].text.v

\* a reply whose second entry is no object and whose first and third entries
\* were constructed
C23_Witness ==
    /\ generator.pc = "returned"
    /\ generator.reply = ArrayReply(<<"good", "not_object", "shouting">>)
    /\ Len(generator.questions) = 2
    /\ generator.questions[1].id = 1
    /\ generator.questions[2].id = 3

\* the reply holds no JSON array that parses
NoJsonArray(reply) == reply.kind \in {"prose", "broken", "object", "scalar"}

\* C24: when the reply holds no parseable JSON array, generate fails with
\* GenerationFormatError after one invocation of the model, returns no
\* questions, and the start handler that called it creates no session.
C24_NoArrayFailsGeneration ==
    (generator.pc \in {"raised", "returned", "answered"}
        /\ NoJsonArray(generator.reply)) =>
        /\ generator.result = Raised("GenerationFormatError")
        /\ generator.invocations = 1
        /\ db = <<>>

\* chunk_document has returned the chunks of a document that has sections
Chunked == analyzer.pc = "returned" /\ analyzer.document.sections # <<>>

\* the chunk ordinals start at 0 in every section: a chunk has ordinal 0, or
\* the ordinal after that of the chunk before it, which is of the same
\* section; and as many chunks have ordinal 0 as sections have any text
OrdinalsRestart(sections, chunks) ==
    /\ \A k \in 1..Len(chunks) :
          \/ chunks[k].chunk_index = 0
          \/ /\ k > 1
             /\ chunks[k].chunk_index = chunks[k - 1].chunk_index + 1
             /\ chunks[k].section = chunks[k - 1].section
             /\ chunks[k].page_number = chunks[k - 1].page_number
    /\ Cardinality({k \in 1..Len(chunks) : chunks[k].chunk_index = 0})
          = Cardinality({k \in 1..Len(sections) : ~sections[k].content.blank})

\* one chunk per section, in section order, with the section's heading and
\* page number and ordinal 0
OneChunkPerSection(sections, chunks) ==
    /\ Len(chunks) = Len(sections)
    /\ \A k \in 1..Len(chunks) :
          /\ chunks[k].section = sections[k].heading
          /\ chunks[k].page_number = sections[k].page_number
          /\ chunks[k].chunk_index = 0
          /\ chunks[k].text.of = sections[k].content.name

\* C25 as stated: of a document whose sections each have a content no longer
\* than the chunk size, chunk_document makes one chunk per section, in
\* section order, with the section's heading, page number and ordinal 0; and
\* the ordinals of every document's chunks restart at 0 in every section.
C25_OneChunkPerShortSection ==
    Chunked =>
        /\ (\A k \in 1..Len(analyzer.document.sections) :
               analyzer.document.sections[k].content.len <= chunk_size) =>
              OneChunkPerSection(analyzer.document.sections, analyzer.chunks)
        /\ OrdinalsRestart(analyzer.document.sections, analyzer.chunks)

\* C25 amended: the same of a document whose sections each have a content
\* that is not empty, not all whitespace, and no longer than the chunk size.
C25_OneChunkPerShortNonBlankSection ==
    Chunked =>
        /\ (\A k \in 1..Len(analyzer.document.sections) :
               /\ analyzer.document.sections[k].content.len <= chunk_size
               /\ ~analyzer.document.sections[k].content.blank) =>
              OneChunkPerSection(analyzer.document.sections, analyzer.chunks)
        /\ OrdinalsRestart(analyzer.document.sections, analyzer.chunks)

\* scenario A: two short sections on different pages gave two chunks
C25_Witness ==
    /\ Chunked
    /\ analyzer.document.sections =
          << Section("Abstract", Text("short", chunk_size, FALSE), 1),
             Section("Method", Text("short", chunk_size, FALSE), 2) >>
    /\ Len(analyzer.chunks) = 2
    /\ analyzer.chunks[1] = TextChunk([of |-> "short", piece |-> 1], "Abstract", 1, 0)
    /\ analyzer.chunks[2] = TextChunk([of |-> "short", piece |-> 1], "Method", 2, 0)

\* C26: in every persisted session, serial or interleaved callers alike, the
\* k-th recorded answer is the answer to the k-th question: its question_id
\* is that question's id.
C26_AnswersFollowQuestions ==
    \A s \in DOMAIN db :
        \A k \in 1..Len(Persisted(s).answers) :
            /\ k <= Len(Persisted(s).questions)
            /\ Persisted(s).answers[k].question_id = Persisted(s).questions[k].id

\* two answers are on record, the second saved by a submit_answer call that
\* overlapped another call on the session: the table it overwrote already
\* held as many answers as it saved
C26_Witness ==
    /\ ret.op = "submit" /\ ret.ok /\ ret.sid \in DOMAIN ret.found
    /\ Len(Persisted(ret.sid).answers) = 2
    /\ Len(Found(ret.sid).answers) >= 2

\* xs is the beginning of ys
IsPrefix(xs, ys) == Len(xs) <= Len(ys) /\ SubSeq(ys, 1, Len(xs)) = xs

\* C27: the persisted answers of a session are append-only: every step, of any
\* operation in any interleaving, leaves the list it found as a prefix of the
\* list it leaves, which is longer by at most one record.
C27_AnswersAppendOnly ==
    [][\A s \in DOMAIN db :
          /\ IsPrefix(Persisted(s).answers, get_session(db', s).answers)
          /\ Len(get_session(db', s).answers) <= Len(Persisted(s).answers) + 1]_vars

\* C28: submit_answer evaluates an answer only against the knowledge base of
\* the session's paper: whenever the evaluator was invoked for a session, the
\* knowledge base it was given has the session's paper_id.
C28_EvaluatedAgainstSessionPaper ==
    (ret.op = "answer" /\ ret.evaluated # 0) =>
        ret.kb.paper_id = Found(ret.sid).paper_id

\* C29 as stated: an embedding instance is fitted at most once, and
\* embed_query answers with the content-hash fallback exactly while no
\* embed_documents call has been made on the instance; the first
\* embed_documents call fits on its texts, the fitted flag never reverts and
\* later embed_documents calls transform with the first fit.
C29_FallbackUntilFirstDocumentsCall ==
    [][LET self == analyzer.embeddings
           after == analyzer'.embeddings
       IN  /\ \A text \in Queries :
                  EmbedQuery(text) =>
                      (after.returned = _hash_embedding(text)
                           <=> self.documents_calls = 0)
           /\ \A texts \in Corpora :
                  (EmbedDocuments(texts) /\ self.documents_calls = 0) =>
                      (after.fitted /\ after.vectorizer = texts)
           /\ self.fitted => (after.fitted /\ after.vectorizer = self.vectorizer)]_vars

\* C29: an embedding instance is fitted at most once.  embed_query answers
\* with the content-hash fallback exactly while the instance is not fitted,
\* and with the fit's transform of the text afterwards; an embed_documents
\* call on an unfitted instance fits on its texts unless the fit raises, and
\* then the instance stays unfitted; once fitted the instance stays fitted on
\* the same texts, and later embed_documents calls transform with that fit.
C29_FittedAtMostOnce ==
    [][LET self == analyzer.embeddings
           after == analyzer'.embeddings
       IN  /\ \A text \in Queries :
                  EmbedQuery(text) =>
                      /\ after.returned = _hash_embedding(text) <=> ~self.fitted
                      /\ self.fitted =>
                             after.returned = Transform(self.vectorizer, text)
                      /\ after.fitted = self.fitted
                      /\ after.vectorizer = self.vectorizer
           /\ \A texts \in Corpora :
                  (EmbedDocuments(texts) /\ ~self.fitted) =>
                      IF HasVocabulary(texts)
                      THEN /\ after.fitted /\ after.vectorizer = texts
                           /\ after.returned = Transform(texts, texts)
                      ELSE /\ ~after.fitted /\ after.vectorizer = NoCorpus
                           /\ after.returned = Raised("ValueError")
           /\ \A texts \in Corpora :
                  (EmbedDocuments(texts) /\ self.fitted) =>
                      after.returned = Transform(self.vectorizer, texts)
           /\ self.fitted => (after.fitted /\ after.vectorizer = self.vectorizer)]_vars

\* a fitted instance has embedded a second, different corpus with the first
\* fit, after a query that was answered by the fallback
C29_Witness ==
    LET self == analyzer.embeddings
    IN  /\ self.fitted /\ self.documents_calls >= 2
        /\ self.calls > self.documents_calls
        /\ self.returned \in { Transform(self.vectorizer, texts) :
                                  texts \in Corpora \ {self.vectorizer} }

\* C30: when the evaluator raises during submit_answer the error propagates
\* (the handler answers with an error status and returns no evaluation) and
\* the table is exactly as the call found it: no answer appended, index,
\* status and completed_at as before, and the question the evaluator was asked is still the current one.
C30_EvaluatorFailureChangesNothing ==
    (ret.op = "submit" /\ ret.exc = "EvaluatorError") =>
        /\ ~ret.ok /\ ret.http # 200 /\ ret.result = NoResult
        /\ ret.session = NoSession
        /\ db = ret.found
        /\ LET session == Persisted(ret.sid)
           IN  /\ session = Found(ret.sid)
               /\ session.status # COMPLETED
               /\ current_question(session) # NoQuestion
               /\ current_question(session).id = ret.evaluated

\* the evaluator raised on the second question of a session whose first
\* answer is on record
C30_Witness ==
    /\ ret.op = "submit" /\ ret.exc = "EvaluatorError"
    /\ Len(Persisted(ret.sid).answers) = 1
    /\ Persisted(ret.sid).current_question_index = 1
    /\ Persisted(ret.sid).status = IN_PROGRESS
====
